---- MODULE Spec2Model ----
(***************************************************************************)
(* Registration-and-payment backend of the retreat event.                  *)
(*                                                                         *)
(*   Spec        the current backend (src/backend/server.js, Postgres):    *)
(*               /inscricao, PIX and boleto collection, the Asaas webhook, *)
(*               admin cancel and restore.                                 *)
(*   SpecPlanner the installment planner of the SQLite iteration           *)
(*               (src/unnamed/part_000): dividirValor and                  *)
(*               gerarVencimentosAteDeadline as pure functions.            *)
(*   SpecSqlite  the webhook of the SQLite iteration, one process per      *)
(*               notification, interleaved at its database callbacks.      *)
(*                                                                         *)
(* Calendar dates of 2026 are day numbers (1 = 2026-01-01); a date string  *)
(* 'YYYY-MM-DD' is the tuple <<y, m, d>> of its three digit groups, and    *)
(* any string that is not of that shape is the empty tuple.  Instants are  *)
(* hours, hour 24*n being 00:00 UTC of day n.                              *)
(***************************************************************************)
EXTENDS Integers, Sequences, FiniteSets, TLC

VARIABLES
    tz,         \* offset of the server's local time from UTC, in hours
    hoje,       \* the server's clock: the hour at which requests are served
    inscritos,  \* public.inscritos: id -> status
    parcelas,   \* public.parcelas: rows in insertion order
    charges,    \* number of payments the gateway has created (ids 1..charges)
    pedidos,    \* number of payment-collection requests that reached the gateway
    resp,       \* the last request and its response
    plan,       \* planner: inputs and the schedule computed from them
    sq          \* SQLite iteration: the store and the webhook processes

vars == <<tz, hoje, inscritos, parcelas, charges, pedidos, resp, plan, sq>>

-----------------------------------------------------------------------------
(* Bounds of the model *)

MaxInscritos == 1
MaxPedidos == 1
MaxNotificacoes == 2
MaxRows == 2
MaxTotalCents == 7

-----------------------------------------------------------------------------
(* Calendar: Date parsing and formatting as V8 performs them *)

NaN == -1

Year == 2026

DaysInMonth == <<31, 28, 31, 30, 31, 30, 31, 31, 30, 31, 30, 31>>

\* Days of the year before the first of each month.
DaysBeforeMonth == <<0, 31, 59, 90, 120, 151, 181, 212, 243, 273, 304, 334>>
DaysBefore(m) == DaysBeforeMonth[m]

\* /^\d{4}-\d{2}-\d{2}$/.test(iso)
MatchesISO(iso) == Len(iso) = 3

\* new Date(iso) / new Date(iso + 'T00:00:00'): the day the string denotes.
\* V8 accepts month 1..12 and day 1..31 and lets the day run over into the
\* next month; anything else is an Invalid Date.
DayOfISO(iso) ==
    IF Len(iso) = 3 /\ iso[1] = Year /\ iso[2] \in 1..12 /\ iso[3] \in 1..31
    THEN DaysBefore(iso[2]) + iso[3]
    ELSE NaN

\* The 'YYYY-MM-DD' text of a day number.
ISOOfDay(n) ==
    LET y == Year + ((n - 1) \div 365)
        r == ((n - 1) % 365) + 1
        m == CHOOSE k \in 1..12 : DaysBefore(k) < r /\ r <= DaysBefore(k) + DaysInMonth[k]
    IN  <<y, m, r - DaysBefore(m)>>

\* Comparisons of Date objects: false whenever one side is an Invalid Date.
DateLt(a, b) == a # NaN /\ b # NaN /\ a < b
DateGt(a, b) == a # NaN /\ b # NaN /\ a > b

\* a.localeCompare(b) < 0 on 'YYYY-MM-DD' strings and on the empty string,
\* which sorts before every other string.
ISOLess(a, b) ==
    IF a = <<>> \/ b = <<>>
    THEN a = <<>> /\ b # <<>>
    ELSE \/ a[1] < b[1]
         \/ a[1] = b[1] /\ a[2] < b[2]
         \/ a[1] = b[1] /\ a[2] = b[2] /\ a[3] < b[3]

\* The local calendar day of an instant, and local midnight of a day.
LocalDay(h) == (h + tz) \div 24
LocalMidnight(n) == 24 * n - tz
UTCDay(h) == h \div 24

DeadlineDay == DaysBefore(4) + 1

-----------------------------------------------------------------------------
(* Installment planner (SQLite iteration) *)

RECURSIVE SumSeq(_)
SumSeq(s) == IF s = <<>> THEN 0 ELSE Head(s) + SumSeq(Tail(s))

\* dividirValor without the remainder carried by the last installment.
dividirValor_SemResto(totalCents, n) ==
    [i \in 1..n |-> totalCents \div n]

dividirValor(totalCents, n) ==
    LET base == totalCents \div n
        soma == base * n
        resto == totalCents - soma
    IN  [i \in 1..n |-> IF i = n THEN base + resto ELSE base]

\* toISO(d): the local calendar date of an instant.
toISO(h) == ISOOfDay(LocalDay(h))

\* addDays(base, dias): setDate(getDate() + dias) keeps the local time of day.
addDays(h, dias) == h + 24 * dias

MinLeadDaysAuto == 3

gerarVencimentosAteDeadline(n, deadlineDay, agora) ==
    LET minPrimeira == addDays(agora, MinLeadDaysAuto)
        deadline == 24 * deadlineDay       \* new Date('2026-04-01'): 00:00 UTC
        diff == (deadline - minPrimeira) \div 24
        totalDias == IF diff > 0 THEN diff ELSE 0
        step == totalDias \div (n - 1)
    IN  IF n <= 1
        THEN <<toISO(IF deadline < minPrimeira THEN minPrimeira ELSE deadline)>>
        ELSE IF totalDias <= 0
        THEN [i \in 1..n |-> IF i < n THEN toISO(addDays(minPrimeira, i - 1))
                                      ELSE toISO(deadline)]
        ELSE [i \in 1..n |-> IF i < n THEN toISO(addDays(minPrimeira, (i - 1) * step))
                                      ELSE toISO(deadline)]

-----------------------------------------------------------------------------
(* The planner as a state machine: inputs drawn at the start, each function
   applied once *)

TOTAL_CENTS == 32000

TimeZones == {-3, 0}

NowDays == {1, 60, 86, 87, 88, 93}
NowHours == {0, 12, 23}
NowSet == {24 * d + h : d \in NowDays, h \in NowHours}

NoPlan == [pc |-> "off", n |-> 0, total |-> 0, agora |-> 0,
           valores |-> <<>>, vencs |-> <<>>, dividido |-> FALSE, agendado |-> FALSE]
NoSq == [inscrito |-> "", parcelas |-> <<>>, procs |-> <<>>]
\* The body of a boleto request: parcelas and parcelasDatas.
NoReq == [body |-> 0, datas |-> <<>>]
NoResp == [op |-> "none", id |-> 0, code |-> 0, ok |-> FALSE, etapa |-> "",
           parcela |-> 0, n |-> 0, antes |-> 0, pid |-> 0, status |-> "", lista |-> <<>>,
           req |-> NoReq]

BackendIdle ==
    /\ hoje = 0
    /\ inscritos = <<>>
    /\ parcelas = <<>>
    /\ charges = 0
    /\ pedidos = 0
    /\ resp = NoResp

InitPlanner ==
    /\ tz \in TimeZones
    /\ plan \in {[NoPlan EXCEPT !.pc = "input", !.n = n, !.total = t, !.agora = a] :
                    n \in 1..3, t \in (0..MaxTotalCents) \cup {TOTAL_CENTS}, a \in NowSet}
    /\ sq = NoSq
    /\ BackendIdle

\* valores = dividirValor(TOTAL_CENTS, qtd)
PlanDividir ==
    /\ plan.pc = "input"
    /\ ~plan.dividido
    /\ plan' = [plan EXCEPT !.valores = dividirValor(plan.total, plan.n), !.dividido = TRUE]
    /\ UNCHANGED <<tz, hoje, inscritos, parcelas, charges, pedidos, resp, sq>>

\* vencs = gerarVencimentosAteDeadline(qtd, DEADLINE_ISO)
PlanVencimentos ==
    /\ plan.pc = "input"
    /\ ~plan.agendado
    /\ plan' = [plan EXCEPT !.vencs = gerarVencimentosAteDeadline(plan.n, DeadlineDay, plan.agora),
                            !.agendado = TRUE]
    /\ UNCHANGED <<tz, hoje, inscritos, parcelas, charges, pedidos, resp, sq>>

NextPlanner == PlanDividir \/ PlanVencimentos

SpecPlanner == InitPlanner /\ [][NextPlanner]_vars

-----------------------------------------------------------------------------
(* Current backend: values and helpers of the handlers *)

ValorTotal == 320

MinLeadDays == 2

\* String(x).toUpperCase() on the status strings that occur.
ToUpper(s) ==
    CASE s = "pending" -> "PENDING"
      [] s = "received" -> "RECEIVED"
      [] s = "confirmed" -> "CONFIRMED"
      [] s = "Received" -> "RECEIVED"
      [] OTHER -> s

\* The filter of the cancel left out: every installment counts as pending.
IsPend_Todas(s) == TRUE

\* COALESCE(status,'') ILIKE 'PEND%'
IsPend(s) == ToUpper(s) \in {"PENDING"}

\* The success test taking every status but PENDING as paid.
IsSuccessStatus_NaoPendente(s) == ToUpper(s) # "PENDING"

IsSuccessStatus(s) == ToUpper(s) = "RECEIVED" \/ ToUpper(s) = "CONFIRMED"

Resp(op, id, code, ok, etapa) ==
    [NoResp EXCEPT !.op = op, !.id = id, !.code = code, !.ok = ok, !.etapa = etapa]

Row(id, p, cents, venc, st, pid) ==
    [inscrito_id |-> id, parcela |-> p, valor_cents |-> cents, vencimento |-> venc,
     status |-> st, pid |-> pid]

RowsOf(id) == {k \in 1..Len(parcelas) : parcelas[k].inscrito_id = id}

\* Number(req.body.parcelas || 3); an absent value is 0 here.
ParcelasOf(body) == IF body = 0 THEN 3 ELSE body

\* toCents(Number((valorTotal / parcelas).toFixed(2))): the quotient rounded to
\* the nearest cent, halves upwards.
ValorParcelaCents(n) == (2 * 100 * ValorTotal + n) \div (2 * n)

\* HOJE, MIN and LIMITE are local midnights; they are compared as local days.
HojeDay == LocalDay(hoje)
MinDay == HojeDay + MinLeadDays
LimiteDay == DeadlineDay

\* LIMITE.toISOString().slice(0, 10): the UTC date of local midnight of the deadline.
LimiteISO == ISOOfDay(UTCDay(LocalMidnight(LimiteDay)))

\* The checks with a lead time of D+3, as in the SQLite iteration.
DateCheck_D3(iso) ==
    IF ~MatchesISO(iso) THEN "invalida"
    ELSE IF DateLt(DayOfISO(iso), MinDay + 1) THEN "passado"
    ELSE IF DateGt(DayOfISO(iso), LimiteDay) THEN "limite"
    ELSE "ok"

\* The checks with the deadline itself refused (d >= LIMITE).
DateCheck_LimiteExclusivo(iso) ==
    IF ~MatchesISO(iso) THEN "invalida"
    ELSE IF DateLt(DayOfISO(iso), MinDay) THEN "passado"
    ELSE IF DateGt(DayOfISO(iso), LimiteDay - 1) THEN "limite"
    ELSE "ok"

\* The checks of one client-supplied date, in the order of the loop body.
DateCheck(iso) ==
    IF ~MatchesISO(iso) THEN "invalida"
    ELSE IF DateLt(DayOfISO(iso), MinDay) THEN "passado"
    ELSE IF DateGt(DayOfISO(iso), LimiteDay) THEN "limite"
    ELSE "ok"

\* escolhidas[idx] || ''
Escolhida(datas, i) == IF i <= Len(datas) THEN datas[i] ELSE <<>>

Anteriores(n) == IF n - 1 > 0 THEN n - 1 ELSE 0

\* Index of the first date the validation loop rejects, 0 when it rejects none.
FirstBadDate(datas, ant) ==
    IF \E i \in 1..ant : DateCheck(Escolhida(datas, i)) # "ok"
    THEN CHOOSE i \in 1..ant :
            /\ DateCheck(Escolhida(datas, i)) # "ok"
            /\ \A j \in 1..(i - 1) : DateCheck(Escolhida(datas, j)) = "ok"
    ELSE 0

RECURSIVE InsertISO(_, _)
InsertISO(x, s) ==
    IF s = <<>> THEN <<x>>
    ELSE IF ISOLess(x, Head(s)) THEN <<x>> \o s
    ELSE <<Head(s)>> \o InsertISO(x, Tail(s))

\* vencimentos.sort((a, b) => a.localeCompare(b))
RECURSIVE SortISO(_)
SortISO(s) == IF s = <<>> THEN <<>> ELSE InsertISO(Head(s), SortISO(Tail(s)))

\* The client's dates followed by the forced deadline, sorted.
Vencimentos(datas, ant) ==
    SortISO([i \in 1..ant |-> Escolhida(datas, i)] \o <<LimiteISO>>)

\* The duplicate check stopping one entry short of the end of the list.
HasDuplicate_SemUltima(v) == \E j \in 2..(Len(v) - 1) : v[j] = v[j - 1]

HasDuplicate(v) == \E j \in 2..Len(v) : v[j] = v[j - 1]

\* new Date(dueDate).toISOString(): the date-only string read as UTC and
\* written back; it throws a RangeError on an Invalid Date.
StoredVencimento(iso) == ISOOfDay(DayOfISO(iso))

\* First installment whose due date makes toISOString throw, 0 when none does.
FirstInvalidDue(v, n) ==
    IF \E p \in 1..n : DayOfISO(v[p]) = NaN
    THEN CHOOSE p \in 1..n : DayOfISO(v[p]) = NaN /\ \A q \in 1..(p - 1) : DayOfISO(v[q]) # NaN
    ELSE 0

-----------------------------------------------------------------------------
(* Current backend: the requests.  Each handler is one step that leaves its
   response in resp; the response is then delivered and the next request is
   served. *)

\* Requests are served around noon of 2026-02-27, on a server whose local
\* time is UTC.
HojeSet == {24 * 58 + 12}
ServerZones == {0}

\* Values of body.parcelas (0: absent) and of one entry of body.parcelasDatas.
BodyParcelas == {-1, 0, 1, 2, 3, 4}
DateInputs == {<<>>, <<Year, 2, 28>>, <<Year, 2, 31>>, <<Year, 3, 1>>, <<Year, 3, 15>>,
               <<Year, 4, 1>>, <<Year, 4, 2>>, <<Year, 13, 1>>}
DatasInputs ==
    {d \in [1..2 -> DateInputs] :
        \/ <<Year, 3, 1>> \in {d[1], d[2]}
        \/ d \in {<<<<Year, 4, 2>>, <<>>>>, <<<<Year, 2, 31>>, <<Year, 13, 1>>>>}}
    \cup {<<<<Year, 3, 1>>, <<Year, 3, 15>>, <<Year, 3, 20>>>>}

\* What the gateway and the store do to one payment-collection request:
\* nothing, a failure of the customer lookup, or a failure of the charge or of
\* the insert of installment `at`.
NoFail == [at |-> 0, kind |-> "none"]
FailPlans ==
    {NoFail, [at |-> 0, kind |-> "customer"]}
    \cup {[at |-> p, kind |-> k] : p \in 1..3, k \in {"gateway", "store"}}

\* Well-formed requests, as the registration page sends them.
BodyUsual == {2, 3}
DatasUsual == {<<<<Year, 3, 1>>, <<Year, 3, 15>>>>}

WebhookStatuses == {"RECEIVED", "confirmed", "OVERDUE"}
WebhookFaults == {"none", "first", "second"}
RestoreStatuses == {"pendente_pagamento", "quitado"}

Ids == 1..(MaxInscritos + 1)

Init ==
    /\ tz \in ServerZones
    /\ hoje \in HojeSet
    /\ inscritos = <<>>
    /\ parcelas = <<>>
    /\ charges = 0
    /\ pedidos = 0
    /\ resp = NoResp
    /\ plan = NoPlan
    /\ sq = NoSq

\* res.json(...) / res.status(...).json(...): the response leaves the server.
Respond ==
    /\ resp # NoResp
    /\ resp' = NoResp
    /\ UNCHANGED <<tz, hoje, inscritos, parcelas, charges, pedidos, plan, sq>>

\* POST /inscricao
Inscricao ==
    /\ resp = NoResp
    /\ Len(inscritos) < MaxInscritos
    /\ inscritos' = Append(inscritos, "pendente_pagamento")
    /\ resp' = Resp("inscricao", Len(inscritos) + 1, 200, TRUE, "")
    /\ UNCHANGED <<tz, hoje, parcelas, charges, pedidos, plan, sq>>

\* The PIX handler charging without looking the registration up.
Pix_SemBusca(id, Fails, maxPedidos, maxRows) ==
    /\ resp = NoResp
    /\ \E fail \in Fails :
          /\ fail.at <= 1
          /\ pedidos < maxPedidos
          /\ Len(parcelas) < maxRows
          /\ pedidos' = pedidos + 1
          /\ charges' = IF fail.kind \in {"customer", "gateway"}
                        THEN charges ELSE charges + 1
          /\ parcelas' =
                IF fail.kind = "none"
                THEN Append(parcelas,
                            Row(id, 1, 100 * ValorTotal, <<>>, "pending", charges + 1))
                ELSE parcelas
          /\ resp' = IF fail.kind = "none"
                     THEN [Resp("pix", id, 200, TRUE, "") EXCEPT
                              !.n = 1, !.antes = Cardinality(RowsOf(id))]
                     ELSE Resp("pix", id, 500, FALSE, "")
    /\ UNCHANGED <<tz, hoje, inscritos, plan, sq>>

\* POST /pagamentos/asaas/pix/:id.  The model serves at most maxPedidos
\* payment-collection requests and stores at most maxRows installments.
Pix(id, Fails, maxPedidos, maxRows) ==
    /\ resp = NoResp
    /\ \/ /\ id \notin 1..Len(inscritos)
          /\ resp' = Resp("pix", id, 404, FALSE, "")
          /\ UNCHANGED <<tz, hoje, inscritos, parcelas, charges, pedidos, plan, sq>>
       \/ /\ id \in 1..Len(inscritos)
          /\ \E fail \in Fails :
                /\ fail.at <= 1
                /\ pedidos < maxPedidos
                /\ Len(parcelas) < maxRows
                /\ pedidos' = pedidos + 1
                /\ charges' = IF fail.kind \in {"customer", "gateway"}
                              THEN charges ELSE charges + 1
                /\ parcelas' =
                      IF fail.kind = "none"
                      THEN Append(parcelas,
                                  Row(id, 1, 100 * ValorTotal, <<>>, "pending", charges + 1))
                      ELSE parcelas
                /\ resp' = IF fail.kind = "none"
                           THEN [Resp("pix", id, 200, TRUE, "") EXCEPT
                                    !.n = 1, !.antes = Cardinality(RowsOf(id))]
                           ELSE Resp("pix", id, 500, FALSE, "")
          /\ UNCHANGED <<tz, hoje, inscritos, plan, sq>>

\* The fan-out loop undoing the installments of the request when one fails.
BoletoFanOut_Rollback(id, req, n, v, fail, maxPedidos, maxRows) ==
    LET inval == FirstInvalidDue(v, n)
        stop == IF fail.at # 0 /\ (inval = 0 \/ fail.at <= inval) THEN fail.at ELSE inval
        charged == stop # 0 /\ ~(stop = fail.at /\ fail.kind = "gateway")
        voltas == IF n > 0 THEN n ELSE 0
        made == IF stop = 0 THEN voltas ELSE stop - 1
        cents == ValorParcelaCents(n)
        novas == [p \in 1..(IF stop = 0 THEN made ELSE 0) |->
                    Row(id, p, cents, StoredVencimento(v[p]), "PENDING", charges + p)]
    IN  /\ fail.at <= voltas
        /\ pedidos < maxPedidos
        /\ Len(parcelas) + made <= maxRows
        /\ pedidos' = pedidos + 1
        /\ parcelas' = parcelas \o novas
        /\ charges' = charges + made + (IF charged THEN 1 ELSE 0)
        /\ resp' = IF stop = 0
                   THEN [Resp("boleto", id, 200, TRUE, "") EXCEPT
                            !.n = made, !.antes = Cardinality(RowsOf(id)),
                            !.lista = [p \in 1..made |-> p], !.req = req]
                   ELSE [Resp("boleto", id, 502, FALSE, "asaas-payments") EXCEPT
                            !.parcela = stop, !.n = 0, !.antes = Cardinality(RowsOf(id)),
                            !.req = req]
        /\ UNCHANGED <<tz, hoje, inscritos, plan, sq>>

\* The fan-out loop of the boleto handler over the sorted due dates v.
BoletoFanOut(id, req, n, v, fail, maxPedidos, maxRows) ==
    LET inval == FirstInvalidDue(v, n)
        \* the installment at which the loop returns, 0 when it runs to the end
        stop == IF fail.at # 0 /\ (inval = 0 \/ fail.at <= inval) THEN fail.at ELSE inval
        \* the charge of installment `stop` exists unless the gateway refused it
        charged == stop # 0 /\ ~(stop = fail.at /\ fail.kind = "gateway")
        \* the loop runs for p = 1 .. parcelas: not at all when parcelas < 1
        voltas == IF n > 0 THEN n ELSE 0
        made == IF stop = 0 THEN voltas ELSE stop - 1
        cents == ValorParcelaCents(n)
        novas == [p \in 1..made |->
                    Row(id, p, cents, StoredVencimento(v[p]), "PENDING", charges + p)]
    IN  /\ fail.at <= voltas
        /\ pedidos < maxPedidos
        /\ Len(parcelas) + made <= maxRows
        /\ pedidos' = pedidos + 1
        /\ parcelas' = parcelas \o novas
        /\ charges' = charges + made + (IF charged THEN 1 ELSE 0)
        /\ resp' = IF stop = 0
                   THEN [Resp("boleto", id, 200, TRUE, "") EXCEPT
                            !.n = made, !.antes = Cardinality(RowsOf(id)),
                            !.lista = [p \in 1..made |-> p], !.req = req]
                   ELSE [Resp("boleto", id, 502, FALSE, "asaas-payments") EXCEPT
                            !.parcela = stop, !.n = made, !.antes = Cardinality(RowsOf(id)),
                            !.req = req]
        /\ UNCHANGED <<tz, hoje, inscritos, plan, sq>>

\* POST /pagamentos/asaas/boletos/:id
Boleto(id, Bodies, Datas, Fails, maxPedidos, maxRows) ==
    /\ resp = NoResp
    /\ \/ /\ id \notin 1..Len(inscritos)
          /\ resp' = Resp("boleto", id, 404, FALSE, "")
          /\ UNCHANGED <<tz, hoje, inscritos, parcelas, charges, pedidos, plan, sq>>
       \/ /\ id \in 1..Len(inscritos)
          /\ [at |-> 0, kind |-> "customer"] \in Fails
          /\ resp' = Resp("boleto", id, 502, FALSE, "customer")
          /\ UNCHANGED <<tz, hoje, inscritos, parcelas, charges, pedidos, plan, sq>>
       \/ /\ id \in 1..Len(inscritos)
          /\ \E body \in Bodies, datas \in Datas :
                LET n == ParcelasOf(body)
                    ant == Anteriores(n)
                    bad == FirstBadDate(datas, ant)
                    v == Vencimentos(datas, ant)
                    req == [body |-> body, datas |-> datas]
                IN  IF bad # 0
                    THEN /\ resp' = [Resp("boleto", id, 400, FALSE, "datas") EXCEPT
                                        !.parcela = bad, !.req = req,
                                        !.status = DateCheck(Escolhida(datas, bad))]
                         /\ UNCHANGED <<tz, hoje, inscritos, parcelas, charges, pedidos, plan, sq>>
                    ELSE IF HasDuplicate(v)
                    THEN /\ resp' = [Resp("boleto", id, 400, FALSE, "datas") EXCEPT
                                        !.status = "duplicadas", !.req = req]
                         /\ UNCHANGED <<tz, hoje, inscritos, parcelas, charges, pedidos, plan, sq>>
                    ELSE \E fail \in Fails :
                            /\ fail.kind # "customer"
                            /\ BoletoFanOut(id, req, n, v, fail, maxPedidos, maxRows)

\* The UPDATE of public.parcelas storing the upper-cased status.
WebhookParcelas_Upper(pid, status) ==
    [k \in 1..Len(parcelas) |->
        IF parcelas[k].pid = pid THEN [parcelas[k] EXCEPT !.status = ToUpper(status)]
        ELSE parcelas[k]]

\* The UPDATE of public.parcelas of the webhook.
WebhookParcelas(pid, status) ==
    [k \in 1..Len(parcelas) |->
        IF parcelas[k].pid = pid THEN [parcelas[k] EXCEPT !.status = status] ELSE parcelas[k]]

\* The settle UPDATE made to wait for every sibling installment to be paid.
WebhookInscritos_TodasPagas(pid) ==
    [i \in 1..Len(inscritos) |->
        IF /\ \E k \in RowsOf(i) : parcelas[k].pid = pid
           /\ \A k \in RowsOf(i) : IsSuccessStatus(parcelas[k].status)
        THEN "quitado" ELSE inscritos[i]]

\* The settle UPDATE with the payment id left out of its subselect.
WebhookInscritos_SemFiltro(pid) ==
    [i \in 1..Len(inscritos) |-> IF RowsOf(i) # {} THEN "quitado" ELSE inscritos[i]]

\* The settle UPDATE moving the registration one stage forward at a time.
WebhookInscritos_Avanca(pid) ==
    [i \in 1..Len(inscritos) |->
        IF \E k \in RowsOf(i) : parcelas[k].pid = pid
        THEN (IF inscritos[i] = "parcial" THEN "quitado" ELSE "parcial")
        ELSE inscritos[i]]

\* The UPDATE of public.inscritos of the webhook.
WebhookInscritos(pid) ==
    [i \in 1..Len(inscritos) |->
        IF \E k \in RowsOf(i) : parcelas[k].pid = pid THEN "quitado" ELSE inscritos[i]]

\* The webhook answering 500 when a store query throws.
Webhook_FailFast(pid, status, fault) ==
    /\ resp = NoResp
    /\ fault = "second" => IsSuccessStatus(status)
    /\ parcelas' = IF fault = "first" THEN parcelas ELSE WebhookParcelas(pid, status)
    /\ inscritos' = IF fault = "none" /\ IsSuccessStatus(status)
                    THEN WebhookInscritos(pid) ELSE inscritos
    /\ resp' = [(IF fault = "none" THEN Resp("webhook", 0, 200, TRUE, "")
                                   ELSE Resp("webhook", 0, 500, FALSE, "exception"))
                    EXCEPT !.pid = pid, !.status = status]
    /\ UNCHANGED <<tz, hoje, charges, pedidos, plan, sq>>

\* POST /webhook/asaas with a payment in the payload. `fault` names the store
\* query that throws: "first" the UPDATE of parcelas, "second" that of inscritos.
Webhook(pid, status, fault) ==
    /\ resp = NoResp
    /\ fault = "second" => IsSuccessStatus(status)
    /\ parcelas' = IF fault = "first" THEN parcelas ELSE WebhookParcelas(pid, status)
    /\ inscritos' = IF fault = "none" /\ IsSuccessStatus(status)
                    THEN WebhookInscritos(pid) ELSE inscritos
    /\ resp' = [Resp("webhook", 0, 200, TRUE, IF fault = "none" THEN "" ELSE "exception")
                    EXCEPT !.pid = pid, !.status = status]
    /\ UNCHANGED <<tz, hoje, charges, pedidos, plan, sq>>

\* POST /webhook/asaas with ASAAS_WEBHOOK_TOKEN set and a missing or wrong
\* asaas-access-token header.
WebhookTokenInvalido ==
    /\ resp = NoResp
    /\ resp' = Resp("webhook", 0, 401, FALSE, "token")
    /\ UNCHANGED <<tz, hoje, inscritos, parcelas, charges, pedidos, plan, sq>>

\* POST /webhook/asaas without a payment in the payload.
WebhookSemPayment ==
    /\ resp = NoResp
    /\ resp' = Resp("webhook", 0, 200, TRUE, "skip")
    /\ UNCHANGED <<tz, hoje, inscritos, parcelas, charges, pedidos, plan, sq>>

\* POST /api/admin/inscritos/:id/cancel, one transaction; `fault`: a query of
\* the transaction throws and it is rolled back.
AdminCancel(id, fault) ==
    /\ resp = NoResp
    /\ IF fault
       THEN /\ resp' = Resp("cancel", id, 500, FALSE, "")
            /\ UNCHANGED <<tz, hoje, inscritos, parcelas, charges, pedidos, plan, sq>>
       ELSE IF id \notin 1..Len(inscritos)
       THEN /\ resp' = Resp("cancel", id, 404, FALSE, "")
            /\ UNCHANGED <<tz, hoje, inscritos, parcelas, charges, pedidos, plan, sq>>
       ELSE /\ inscritos' = [inscritos EXCEPT ![id] = "cancelado"]
            /\ parcelas' = [k \in 1..Len(parcelas) |->
                               IF parcelas[k].inscrito_id = id /\ IsPend(parcelas[k].status)
                               THEN [parcelas[k] EXCEPT !.status = "CANCELLED"]
                               ELSE parcelas[k]]
            /\ resp' = Resp("cancel", id, 200, TRUE, "")
            /\ UNCHANGED <<tz, hoje, charges, pedidos, plan, sq>>

\* POST /api/admin/inscritos/:id/restore
AdminRestore(id, toStatus) ==
    /\ resp = NoResp
    /\ IF id \notin 1..Len(inscritos)
       THEN /\ resp' = Resp("restore", id, 404, FALSE, "")
            /\ UNCHANGED <<tz, hoje, inscritos, parcelas, charges, pedidos, plan, sq>>
       ELSE /\ inscritos' = [inscritos EXCEPT ![id] = toStatus]
            /\ resp' = Resp("restore", id, 200, TRUE, "")
            /\ UNCHANGED <<tz, hoje, parcelas, charges, pedidos, plan, sq>>

\* The whole backend, its payment-collection requests well-formed and served
\* without a failure of the gateway or the store.
Next ==
    \/ Respond
    \/ Inscricao
    \/ \E id \in Ids : Pix(id, {NoFail}, MaxRows, MaxRows)
    \/ \E id \in Ids : Boleto(id, BodyUsual, DatasUsual, {NoFail}, MaxRows, MaxRows)
    \/ \E pid \in 1..(charges + 1), status \in WebhookStatuses, fault \in WebhookFaults :
            Webhook(pid, status, fault)
    \/ WebhookTokenInvalido
    \/ WebhookSemPayment
    \/ \E id \in Ids, fault \in BOOLEAN : AdminCancel(id, fault)
    \/ \E id \in Ids, toStatus \in RestoreStatuses : AdminRestore(id, toStatus)

Spec == Init /\ [][Next]_vars

\* Registration and payment collection alone, with every request body and
\* every failure of the gateway and the store.
NextCobranca ==
    \/ Respond
    \/ Inscricao
    \/ \E id \in Ids : Pix(id, FailPlans, MaxPedidos, 4 * MaxPedidos)
    \/ \E id \in Ids : Boleto(id, BodyParcelas, DatasInputs, FailPlans, MaxPedidos, 4 * MaxPedidos)

SpecCobranca == Init /\ [][NextCobranca]_vars

-----------------------------------------------------------------------------
(* Claims about the planner *)

DeadlineISO == <<Year, 4, 1>>

\* C1: for every totalCents >= 0 and count in 1..3, dividirValor returns count
\* amounts, the first count-1 equal to floor(totalCents / count), the last equal
\* to totalCents minus the others, and their sum is totalCents.
C1_SplitExact ==
    plan.dividido =>
        /\ Len(plan.valores) = plan.n
        /\ \A i \in 1..(plan.n - 1) : plan.valores[i] = plan.total \div plan.n
        /\ plan.valores[plan.n] = plan.total - (plan.n - 1) * (plan.total \div plan.n)
        /\ SumSeq(plan.valores) = plan.total

C1_Witness ==
    /\ plan.dividido
    /\ plan.n = 3
    /\ plan.total = TOTAL_CENTS
    /\ plan.valores[3] > plan.valores[1]

\* C10: for every count in 1..3 and every value of today, the auto-mode schedule
\* has count due dates, strictly ascending, the last one being the deadline.
C10_AutoAscendingToDeadline ==
    plan.agendado =>
        /\ Len(plan.vencs) = plan.n
        /\ \A i \in 1..(plan.n - 1) : ISOLess(plan.vencs[i], plan.vencs[i + 1])
        /\ plan.vencs[plan.n] = DeadlineISO

-----------------------------------------------------------------------------
(* Webhook of the SQLite iteration.  One registration with its installments
   (installment k has payment id k); every notification is a process whose
   steps are the database statements of the handler, executed one at a time in
   the order the handler issues them, and interleaved with the statements of
   the other notifications. *)

\* (payment.status || '').toLowerCase()
ToLower(s) ==
    CASE s = "RECEIVED" -> "received"
      [] s = "CONFIRMED" -> "confirmed"
      [] s = "OVERDUE" -> "overdue"
      [] s = "PENDING" -> "pending"
      [] OTHER -> s

SqStatuses == {"RECEIVED", "CONFIRMED", "OVERDUE"}

\* list.length >= 3 && list.every(p => (p.status || '').toLowerCase() === 'received')
todasPagas(list) ==
    Len(list) >= 3 /\ \A k \in 1..Len(list) : ToLower(list[k]) = "received"

SqProc(pid, raw) == [pid |-> pid, raw |-> raw, pc |-> "get", parc |-> 0, list |-> <<>>]

\* The registration after its boleto request, some installments possibly paid
\* by notifications processed earlier, its status the one they left.
InitSqlite ==
    /\ tz = 0
    /\ \E qtd \in 1..3 : \E st \in [1..qtd -> {"pending", "received"}] :
          sq = [inscrito |-> IF todasPagas(st) THEN "quitado" ELSE "parcial",
                parcelas |-> st, procs |-> <<>>]
    /\ plan = NoPlan
    /\ BackendIdle

SqUnchanged == UNCHANGED <<tz, hoje, inscritos, parcelas, charges, pedidos, resp, plan>>

\* POST /webhook/asaas arrives with payment.id set: db.get is issued.
SqReceive(pid, raw) ==
    /\ Len(sq.procs) < MaxNotificacoes
    /\ sq' = [sq EXCEPT !.procs = Append(@, SqProc(pid, raw))]
    /\ SqUnchanged

\* SELECT * FROM parcelas WHERE asaas_payment_id = ? and its callback, which
\* returns when no row matches and otherwise issues the UPDATE of the row.
SqGet(p) ==
    /\ sq.procs[p].pc = "get"
    /\ sq' = IF sq.procs[p].pid \in 1..Len(sq.parcelas)
             THEN [sq EXCEPT !.procs[p].parc = sq.procs[p].pid, !.procs[p].pc = "update"]
             ELSE [sq EXCEPT !.procs[p].pc = "done"]
    /\ SqUnchanged

\* UPDATE parcelas SET status = ? WHERE id = ?
SqUpdateParcela(p) ==
    /\ sq.procs[p].pc = "update"
    /\ sq' = [sq EXCEPT !.parcelas[sq.procs[p].parc] = ToLower(sq.procs[p].raw),
                        !.procs[p].pc = "all"]
    /\ SqUnchanged

\* SELECT status FROM parcelas WHERE inscrito_id = ?: the callback receives
\* the statuses as they are now.
SqAll(p) ==
    /\ sq.procs[p].pc = "all"
    /\ sq' = [sq EXCEPT !.procs[p].list = sq.parcelas, !.procs[p].pc = "settle"]
    /\ SqUnchanged

\* The status the callback of the sibling read computes for the registration.
SqAggregate(list) == IF todasPagas(list) THEN "quitado" ELSE "parcial"

\* UPDATE inscritos SET status = ? WHERE id = ?, with the status computed
\* from the list read before.
SqUpdateInscrito(p) ==
    /\ sq.procs[p].pc = "settle"
    /\ sq' = [sq EXCEPT !.inscrito = SqAggregate(sq.procs[p].list), !.procs[p].pc = "done"]
    /\ SqUnchanged

NextSqlite ==
    \/ \E pid \in 1..4, raw \in SqStatuses : SqReceive(pid, raw)
    \/ \E p \in 1..Len(sq.procs) : SqGet(p)
    \/ \E p \in 1..Len(sq.procs) : SqUpdateParcela(p)
    \/ \E p \in 1..Len(sq.procs) : SqAll(p)
    \/ \E p \in 1..Len(sq.procs) : SqUpdateInscrito(p)

SpecSqlite == InitSqlite /\ [][NextSqlite]_vars

\* C7: when notifications for installments of one registration are processed
\* concurrently, once all of them have finished the registration is 'quitado'
\* whenever every installment is received, never a 'parcial' computed from an
\* older read of the siblings.
C7_FinalStatusIsAggregate ==
    (sq.procs # <<>> /\ \A p \in 1..Len(sq.procs) : sq.procs[p].pc = "done") =>
        (todasPagas(sq.parcelas) => sq.inscrito = "quitado")

-----------------------------------------------------------------------------
(* Claims about the current backend *)

\* The installments the last boleto request created: the last resp.n rows.
Criadas == SubSeq(parcelas, Len(parcelas) - resp.n + 1, Len(parcelas))

KnownPid(pid) == \E k \in 1..Len(parcelas) : parcelas[k].pid = pid

\* C2: after a boleto request with parcelas in 1..3 succeeds for a registration
\* that had no installments, the valor_cents of its installments sum to 32000,
\* the installments before the last each being floor(32000 / parcelas).
C2_BoletoSumIsTotal ==
    (resp.op = "boleto" /\ resp.ok /\ resp.antes = 0 /\ resp.n \in 1..3) =>
        /\ SumSeq([k \in 1..resp.n |-> Criadas[k].valor_cents]) = 100 * ValorTotal
        /\ \A k \in 1..(resp.n - 1) : Criadas[k].valor_cents = (100 * ValorTotal) \div resp.n

\* C3: a webhook notification with status RECEIVED or CONFIRMED in any casing,
\* for the payment id of a stored installment, stores the notified status on
\* that installment and sets its registration to 'quitado', whatever the
\* statuses of the sibling installments.
C3_SuccessSettles ==
    [][\A pid \in 1..charges, status \in WebhookStatuses :
          (IsSuccessStatus(status) /\ KnownPid(pid) /\ Webhook(pid, status, "none")) =>
              \A k \in 1..Len(parcelas) :
                  parcelas[k].pid = pid =>
                      /\ parcelas'[k].status = status
                      /\ inscritos'[parcelas[k].inscrito_id] = "quitado"]_vars

C3_Witness ==
    /\ resp.op = "webhook" /\ resp.etapa = "" /\ resp.status = "confirmed"
    /\ \E k, j \in 1..Len(parcelas) :
          /\ parcelas[k].pid = resp.pid
          /\ parcelas[k].status = "confirmed"
          /\ parcelas[j].inscrito_id = parcelas[k].inscrito_id
          /\ parcelas[j].status = "PENDING"
          /\ inscritos[parcelas[k].inscrito_id] = "quitado"

\* C4: a registration that is 'cancelado' when a webhook notification is
\* processed is still 'cancelado' afterwards.
C4_CanceledStaysCanceled ==
    [][resp'.op = "webhook" =>
          \A i \in 1..Len(inscritos) :
              inscritos[i] = "cancelado" => inscritos'[i] = "cancelado"]_vars

\* C5: a webhook notification whose payment id matches no stored installment
\* is answered with ok: true and changes no installment and no registration,
\* whatever its status and whatever the store does.
C5_UnknownIdIsNoOp ==
    [][\A pid \in 1..(charges + 1), status \in WebhookStatuses, fault \in WebhookFaults :
          (~KnownPid(pid) /\ Webhook(pid, status, fault)) =>
              /\ resp'.ok /\ resp'.code = 200
              /\ parcelas' = parcelas
              /\ inscritos' = inscritos]_vars

C5_Witness ==
    /\ resp.op = "webhook" /\ resp.etapa = "" /\ resp.ok
    /\ IsSuccessStatus(resp.status)
    /\ ~KnownPid(resp.pid)
    /\ \E k \in 1..Len(parcelas) : inscritos[parcelas[k].inscrito_id] # "quitado"

\* C6: once a notification has been processed, a second delivery of the same
\* notification (same payment id, same status) changes no installment and no
\* registration.
C6_SecondDeliveryChangesNothing ==
    (resp.op = "webhook" /\ resp.etapa = "") =>
        /\ WebhookParcelas(resp.pid, resp.status) = parcelas
        /\ IsSuccessStatus(resp.status) => WebhookInscritos(resp.pid) = inscritos

C6_Witness ==
    /\ resp.op = "webhook" /\ resp.etapa = "" /\ resp.status = "RECEIVED"
    /\ \E k \in 1..Len(parcelas) :
          /\ parcelas[k].pid = resp.pid
          /\ parcelas[k].status = "RECEIVED"
          /\ inscritos[parcelas[k].inscrito_id] = "quitado"

\* C8: the two writes of one success notification are one unit: whenever the
\* webhook has written RECEIVED/CONFIRMED on an installment, the status of its
\* registration has been written too when the handler returns.
C8_WritesAreOneUnit ==
    [][resp'.op = "webhook" =>
          \A k \in 1..Len(parcelas) :
              (parcelas'[k].status # parcelas[k].status /\ IsSuccessStatus(parcelas'[k].status))
                  => inscritos'[parcelas[k].inscrito_id] = "quitado"]_vars

\* C9: after a boleto request with client-supplied dates succeeds, the due
\* dates of the installments it created are strictly increasing by index and
\* the last one is the deadline 2026-04-01.
C9_DueDatesAscendToDeadline ==
    (resp.op = "boleto" /\ resp.ok /\ resp.n >= 2) =>
        /\ \A k \in 1..(resp.n - 1) : ISOLess(Criadas[k].vencimento, Criadas[k + 1].vencimento)
        /\ Criadas[resp.n].vencimento = DeadlineISO

-----------------------------------------------------------------------------
(* Claims about the boleto handler: count, fan-out and its failures *)

\* C11: for every value of body.parcelas, a boleto request either is rejected
\* or creates at least 1 and at most 3 installments.
C11_CountWithinOneToThree ==
    resp.op = "boleto" => (IF resp.ok THEN resp.n \in 1..3 ELSE resp.n <= 3)

\* C17: when creation fails at installment p > 1, the failure response carries
\* the results of the installments 1..p-1 already created, with the failure
\* detail for p.
C17_FailureReturnsCreated ==
    (resp.op = "boleto" /\ resp.etapa = "asaas-payments" /\ resp.parcela > 1) =>
        /\ resp.n = resp.parcela - 1
        /\ resp.lista = [p \in 1..(resp.parcela - 1) |-> p]

\* C18: whenever a boleto request ends, in success or in failure, every charge
\* the gateway created for it has a persisted installment carrying its payment
\* id.
C18_EveryChargePersisted ==
    [][resp'.op = "boleto" =>
          \A c \in (charges + 1)..charges' :
              \E k \in 1..Len(parcelas') : parcelas'[k].pid = c]_vars

-----------------------------------------------------------------------------
(* Claims about the boleto handler: validation of the client's dates *)

\* A boleto response of a request that reached the validation of its dates.
Validada(r) == r.op = "boleto" /\ r.code # 404 /\ r.etapa # "customer"

\* The dates the client supplied for the installments before the last.
ReqAnt(r) == Anteriores(ParcelasOf(r.req.body))
ReqData(r, k) == Escolhida(r.req.datas, k)
AntesPassam(r, k) == \A j \in 1..(k - 1) : DateCheck(ReqData(r, j)) = "ok"

\* C12: when the client's dates pass the validation and, with the forced
\* deadline added, two dates of the list coincide (a client date equal to the
\* deadline 2026-04-01 included), the request is rejected as duplicate dates
\* and creates no installment and no charge.
C12_DuplicateDatesRejected ==
    [][LET todas == [i \in 1..ReqAnt(resp') |-> ReqData(resp', i)] \o <<DeadlineISO>>
       IN  (/\ Validada(resp')
            /\ AntesPassam(resp', ReqAnt(resp') + 1)
            /\ \E i, j \in 1..Len(todas) : i # j /\ todas[i] = todas[j])
           => /\ resp'.code = 400 /\ resp'.etapa = "datas" /\ resp'.status = "duplicadas"
              /\ parcelas' = parcelas
              /\ charges' = charges]_vars

C12_Witness ==
    /\ Validada(resp) /\ resp.code = 400 /\ resp.status = "duplicadas"
    /\ \E i \in 1..ReqAnt(resp) : ReqData(resp, i) = DeadlineISO
    /\ parcelas = <<>> /\ charges = 0

\* C13: a client date for installment k earlier than today + 2 days is
\* rejected with an error naming k, and a date that is exactly today + 2 days
\* is not rejected as too early.
C13_TooEarlyRejected ==
    [][\A k \in 1..ReqAnt(resp') :
          (Validada(resp') /\ AntesPassam(resp', k) /\ DayOfISO(ReqData(resp', k)) # NaN) =>
              /\ DayOfISO(ReqData(resp', k)) < HojeDay + 2 =>
                    /\ resp'.code = 400 /\ resp'.etapa = "datas"
                    /\ resp'.parcela = k /\ resp'.status = "passado"
              /\ DayOfISO(ReqData(resp', k)) = HojeDay + 2 =>
                    ~(resp'.parcela = k /\ resp'.status = "passado")]_vars

C13_Witness ==
    /\ Validada(resp) /\ resp.code = 400 /\ resp.status = "passado" /\ resp.parcela = 2
    /\ DayOfISO(ReqData(resp, 1)) = HojeDay + 2
    /\ DayOfISO(ReqData(resp, 2)) = HojeDay + 1

\* C14: a client date for installment k later than the deadline 2026-04-01 is
\* rejected with an error naming k, and a date on or before the deadline is
\* not rejected as too late.
C14_TooLateRejected ==
    [][\A k \in 1..ReqAnt(resp') :
          (Validada(resp') /\ AntesPassam(resp', k) /\ DayOfISO(ReqData(resp', k)) # NaN) =>
              /\ (DayOfISO(ReqData(resp', k)) > DayOfISO(DeadlineISO)
                    /\ DayOfISO(ReqData(resp', k)) >= HojeDay + 2) =>
                    /\ resp'.code = 400 /\ resp'.etapa = "datas"
                    /\ resp'.parcela = k /\ resp'.status = "limite"
              /\ DayOfISO(ReqData(resp', k)) <= DayOfISO(DeadlineISO) =>
                    ~(resp'.parcela = k /\ resp'.status = "limite")]_vars

C14_Witness ==
    /\ Validada(resp) /\ resp.code = 400 /\ resp.status = "limite" /\ resp.parcela = 2
    /\ DayOfISO(ReqData(resp, 2)) = DayOfISO(DeadlineISO) + 1
    /\ parcelas = <<>>

\* C15: when one of the first count-1 client dates is missing or is not a date
\* written as YYYY-MM-DD, the request fails with a client error naming that
\* installment and creates no installment and no charge.
C15_MalformedDateRejected ==
    [][\A k \in 1..ReqAnt(resp') :
          (Validada(resp') /\ AntesPassam(resp', k) /\ DayOfISO(ReqData(resp', k)) = NaN) =>
              /\ resp'.code = 400 /\ resp'.etapa = "datas" /\ resp'.parcela = k
              /\ parcelas' = parcelas
              /\ charges' = charges]_vars

\* C16: when the gateway or the store fails while installment p is created,
\* the installments 1..p-1 of the request stay persisted after those the store
\* already held, nothing is attempted beyond p, the response reports p, and the
\* request is served once.
C16_PartialFanOutKept ==
    [][(resp'.op = "boleto" /\ resp'.etapa = "asaas-payments") =>
          LET p == resp'.parcela
          IN  /\ p >= 1 /\ resp'.code = 502 /\ ~resp'.ok
              /\ Len(parcelas') = Len(parcelas) + p - 1
              /\ SubSeq(parcelas', 1, Len(parcelas)) = parcelas
              /\ \A q \in 1..(p - 1) :
                    /\ parcelas'[Len(parcelas) + q].inscrito_id = resp'.id
                    /\ parcelas'[Len(parcelas) + q].parcela = q
                    /\ parcelas'[Len(parcelas) + q].pid = charges + q
              /\ charges' \in {charges + p - 1, charges + p}
              /\ pedidos' = pedidos + 1]_vars

C16_Witness ==
    /\ resp.op = "boleto" /\ resp.etapa = "asaas-payments" /\ resp.parcela = 3
    /\ \A q \in 1..2 : \E k \in RowsOf(resp.id) : parcelas[k].parcela = q
    /\ ~\E k \in RowsOf(resp.id) : parcelas[k].parcela = 3

-----------------------------------------------------------------------------
(* Claims about the webhook: what it stores and what it leaves alone *)

\* C19: the webhook writes the status of the notification onto the matched
\* installment exactly as it was sent, in its casing; the upper-cased form
\* serves the comparison only.
C19_StatusStoredVerbatim ==
    [][(resp'.op = "webhook" /\ resp'.etapa = "") =>
          \A k \in 1..Len(parcelas) :
              parcelas[k].pid = resp'.pid => parcelas'[k].status = resp'.status]_vars

C19_Witness ==
    /\ resp.op = "webhook" /\ resp.etapa = "" /\ resp.status = "confirmed"
    /\ ToUpper(resp.status) # resp.status
    /\ \E k \in 1..Len(parcelas) :
          /\ parcelas[k].pid = resp.pid
          /\ parcelas[k].status = "confirmed"

\* C20: a notification whose status is not RECEIVED or CONFIRMED in any casing
\* leaves the status of every registration as it was and changes nothing but
\* the status of the matched installment.
C20_NonSuccessLeavesRegistration ==
    [][(resp'.op = "webhook" /\ ToUpper(resp'.status) \notin {"RECEIVED", "CONFIRMED"}) =>
          /\ inscritos' = inscritos
          /\ Len(parcelas') = Len(parcelas)
          /\ \A k \in 1..Len(parcelas) :
                IF parcelas[k].pid = resp'.pid
                THEN parcelas'[k] \in {parcelas[k], [parcelas[k] EXCEPT !.status = resp'.status]}
                ELSE parcelas'[k] = parcelas[k]]_vars

C20_Witness ==
    /\ resp.op = "webhook" /\ resp.etapa = "" /\ resp.status = "OVERDUE"
    /\ \E k \in 1..Len(parcelas) :
          /\ parcelas[k].pid = resp.pid
          /\ parcelas[k].status = "OVERDUE"
          /\ inscritos[parcelas[k].inscrito_id] = "pendente_pagamento"

-----------------------------------------------------------------------------
(* Claims about the life of installments and registrations *)

\* C21: the webhook never reverses the status of an installment: one that is
\* received or confirmed stays in a success status, and one that has left
\* pending (paid, overdue or canceled) is not returned to pending.
C21_NoTransitionReversed ==
    [][resp'.op = "webhook" =>
          \A k \in 1..Len(parcelas) :
              /\ ToUpper(parcelas[k].status) \in {"RECEIVED", "CONFIRMED"} =>
                    ToUpper(parcelas'[k].status) \in {"RECEIVED", "CONFIRMED"}
              /\ ToUpper(parcelas[k].status) # "PENDING" =>
                    ToUpper(parcelas'[k].status) # "PENDING"]_vars

\* C23: a registration starts pending with no installments, is 'parcial' once
\* a PIX or boleto request has created its installments, and becomes 'quitado'
\* only from 'parcial' and only by a success notification.
C23_RegistrationStateMachine ==
    [][/\ resp'.op = "inscricao" =>
             /\ inscritos'[resp'.id] = "pendente_pagamento"
             /\ \A k \in 1..Len(parcelas') : parcelas'[k].inscrito_id # resp'.id
       /\ (resp'.op \in {"pix", "boleto"} /\ resp'.ok /\ resp'.n >= 1) =>
             inscritos'[resp'.id] = "parcial"
       /\ \A i \in 1..Len(inscritos) :
             (inscritos'[i] = "quitado" /\ inscritos[i] # "quitado") =>
                 /\ inscritos[i] = "parcial"
                 /\ resp'.op = "webhook" /\ IsSuccessStatus(resp'.status)]_vars

\* C26: installment indices are 1-based and unique within a registration: no
\* registration has two installments with the same index.
C26_IndicesUnique ==
    \A k, j \in 1..Len(parcelas) :
        /\ parcelas[k].parcela >= 1
        /\ (k # j /\ parcelas[k].inscrito_id = parcelas[j].inscrito_id) =>
              parcelas[k].parcela # parcelas[j].parcela

\* C29: a registration is 'quitado' only if at least one of its installments
\* currently has the status RECEIVED or CONFIRMED, in any casing.
C29_SettledHasPaidInstallment ==
    \A i \in 1..Len(inscritos) :
        inscritos[i] = "quitado" =>
            \E k \in RowsOf(i) : ToUpper(parcelas[k].status) \in {"RECEIVED", "CONFIRMED"}

-----------------------------------------------------------------------------
(* Claims about the automatic schedule *)

\* The window of the schedule in whole days, from today + D+3 to the deadline,
\* and the calendar day of today + D+3.
PlanJanela == (24 * DeadlineDay - (plan.agora + 24 * MinLeadDaysAuto)) \div 24
PlanPrimeiroDia == LocalDay(plan.agora) + MinLeadDaysAuto

\* C27: with count >= 2 and a positive window, the count-1 dates before the
\* last start at today + minLeadDays and are floor(window / (count-1)) days
\* apart, and the last date is the deadline.
C27_AutoEvenlySpaced ==
    (plan.agendado /\ plan.n >= 2 /\ PlanJanela > 0) =>
        LET step == PlanJanela \div (plan.n - 1)
        IN  /\ Len(plan.vencs) = plan.n
            /\ \A i \in 1..(plan.n - 1) :
                  plan.vencs[i] = ISOOfDay(PlanPrimeiroDia + (i - 1) * step)
            /\ plan.vencs[plan.n] = DeadlineISO

\* C28: with count >= 2 and a window that is not positive, every date before
\* the last is today + minLeadDays and the last date is the deadline.
C28_AutoCollapsed ==
    (plan.agendado /\ plan.n >= 2 /\ PlanJanela <= 0) =>
        /\ Len(plan.vencs) = plan.n
        /\ \A i \in 1..(plan.n - 1) : plan.vencs[i] = ISOOfDay(PlanPrimeiroDia)
        /\ plan.vencs[plan.n] = DeadlineISO

-----------------------------------------------------------------------------
(* Claims about the all-siblings webhook of the SQLite iteration *)

\* C22: after one notification has been applied, with no other in progress,
\* the registration is 'quitado' exactly when every one of its installments is
\* received or confirmed, whether it has 1, 2 or 3 installments.
C22_SettledIffAllPaid ==
    (Len(sq.procs) = 1 /\ sq.procs[1].pc = "done" /\ sq.procs[1].parc # 0) =>
        (sq.inscrito = "quitado" <=>
            \A k \in 1..Len(sq.parcelas) : sq.parcelas[k] \in {"received", "confirmed"})

-----------------------------------------------------------------------------
(* Claims about errors: the webhook's answer, unknown registrations, cancel *)

\* C24: once its token check has passed, the webhook answers 200 with
\* ok: true whatever happens, a failure of a store query included.
C24_WebhookNeverRaises ==
    (resp.op = "webhook" /\ resp.etapa # "token") => (resp.code = 200 /\ resp.ok)

C24_Witness ==
    /\ resp.op = "webhook" /\ resp.etapa = "exception"
    /\ resp.code = 200 /\ resp.ok
    /\ KnownPid(resp.pid)

\* C25: a PIX or boleto request for a registration id that does not exist is
\* answered 404 and creates no installment, and nothing is asked of the
\* gateway: no customer, no charge.
C25_UnknownRegistrationNotFound ==
    [][(resp'.op \in {"pix", "boleto"} /\ resp'.id \notin 1..Len(inscritos)) =>
          /\ resp'.code = 404 /\ ~resp'.ok
          /\ parcelas' = parcelas
          /\ charges' = charges
          /\ pedidos' = pedidos]_vars

C25_Witness ==
    /\ resp.op = "pix" /\ resp.code = 404
    /\ Len(inscritos) >= 1 /\ resp.id > Len(inscritos)
    /\ charges = 0 /\ parcelas = <<>>

====
